---- MODULE Spec2Model ----
(***************************************************************************)
(* A model of the figment2 provider for Cloudflare Worker environment      *)
(* bindings (src/src/lib.rs) and of the worker that exercises it           *)
(* (src/test-worker/src/lib.rs).                                           *)
(*                                                                         *)
(* Strings are sequences of one-character strings, so that upper-casing    *)
(* is computed character by character and is not the identity.             *)
(***************************************************************************)
EXTENDS Integers, Sequences, FiniteSets, TLC

\* Longest string the environment store holds as a plain variable's value.
MaxValueLen == 1

----------------------------------------------------------------------------
\* Field identifiers of the worker's configuration structs.

api_base_url == <<"a","p","i","_","b","a","s","e","_","u","r","l">>

api_key == <<"a","p","i","_","k","e","y">>

max_retries == <<"m","a","x","_","r","e","t","r","i","e","s">>

missing_field == <<"m","i","s","s","i","n","g","_","f","i","e","l","d">>

\* A field declared with capitals (a renamed or non-snake-case field).
Api_Key == <<"A","p","i","_","K","e","y">>

\* Variant names of an enum shape.
Red == <<"R","e","d">>

Green == <<"G","r","e","e","n">>

\* Target shapes T: the entry point T's Deserialize implementation calls on
\* the deserializer, the static name slice it passes there (fields for a
\* struct, variants for an enum), and whether its fields are Option<String>.
FullConfig ==
    [name |-> "FullConfig", entry |-> "struct",
     names |-> <<api_base_url, api_key, max_retries>>, optional |-> FALSE]

PartialConfig ==
    [name |-> "PartialConfig", entry |-> "struct",
     names |-> <<api_base_url, missing_field, api_key>>, optional |-> TRUE]

SingleConfig ==
    [name |-> "SingleConfig", entry |-> "struct",
     names |-> <<api_base_url>>, optional |-> FALSE]

\* Two distinct fields whose upper-cased forms coincide.
CaseConfig ==
    [name |-> "CaseConfig", entry |-> "struct",
     names |-> <<Api_Key, api_key>>, optional |-> TRUE]

EmptyConfig ==
    [name |-> "EmptyConfig", entry |-> "struct", names |-> <<>>,
     optional |-> FALSE]

OtherShapes ==
    { [name |-> "String", entry |-> "string", names |-> <<>>, optional |-> FALSE],
      [name |-> "Vec", entry |-> "seq", names |-> <<>>, optional |-> FALSE],
      [name |-> "HashMap", entry |-> "map", names |-> <<>>, optional |-> FALSE],
      [name |-> "Tuple", entry |-> "tuple", names |-> <<>>, optional |-> FALSE],
      [name |-> "Colour", entry |-> "enum", names |-> <<Red, Green>>,
       optional |-> FALSE],
      [name |-> "Option", entry |-> "option", names |-> <<>>, optional |-> FALSE] }

Shapes ==
    {FullConfig, PartialConfig, SingleConfig, CaseConfig, EmptyConfig}
        \cup OtherShapes

----------------------------------------------------------------------------
\* str::to_uppercase, character by character.

LowerCase ==
    <<"a","b","c","d","e","f","g","h","i","j","k","l","m",
      "n","o","p","q","r","s","t","u","v","w","x","y","z">>

UpperCase ==
    <<"A","B","C","D","E","F","G","H","I","J","K","L","M",
      "N","O","P","Q","R","S","T","U","V","W","X","Y","Z">>

char_to_uppercase(c) ==
    IF \E i \in 1..Len(LowerCase) : LowerCase[i] = c
    THEN <<UpperCase[CHOOSE i \in 1..Len(LowerCase) : LowerCase[i] = c]>>
    ELSE <<c>>

RECURSIVE uppercase_from(_, _)
uppercase_from(s, i) ==
    IF i > Len(s) THEN <<>>
    ELSE char_to_uppercase(s[i]) \o uppercase_from(s, i + 1)

\* The binding is the field as declared: the upper-casing is forgotten.
to_uppercase_identity(s) == s

to_uppercase(s) == uppercase_from(s, 1)

----------------------------------------------------------------------------
\* The environment store (worker::Env): per tier, what each binding holds.

API_BASE_URL == <<"A","P","I","_","B","A","S","E","_","U","R","L">>

API_KEY == <<"A","P","I","_","K","E","Y">>

BindingNames == {API_BASE_URL, API_KEY}

\* The strings the tiers hold differ, so that a value shows its tier.
VarStrings == { [j \in 1..n |-> "x"] : n \in 1..MaxValueLen }

SecretStrings == { <<"s">> }

\* A slot holds no binding, a binding whose lookup fails with an error other
\* than "not found", or a string.
Absent == [kind |-> "absent", str |-> <<>>]

Broken == [kind |-> "error", str |-> <<>>]

Slots(strings) ==
    {Absent, Broken} \cup { [kind |-> "string", str |-> s] : s \in strings }

Profiles == {"default", "staging"}

None == [tag |-> "None"]

VARIABLES
    envVars,     \* plain-variable tier of the environment store
    envSecrets,  \* secret tier of the environment store
    target,      \* the shape T the provider was built for
    fields,      \* CloudflareWorkersBindings.fields
    profile,     \* CloudflareWorkersBindings.profile
    discovery,   \* what T::deserialize returned to field_names
    result,      \* what the provider's last data() call returned
    trace,       \* the store lookups the last operation issued, in order
    refreshed,   \* the last data() call returned other fields than the one before
    extracted,   \* what the last extraction returned, and the profile selected
    lastOp       \* the last operation

vars == <<envVars, envSecrets, target, fields, profile, discovery, result, trace,
          refreshed, extracted, lastOp>>

----------------------------------------------------------------------------
\* worker::Env::var and worker::Env::secret: Ok with the binding, or Err.

Ok(v) == [ok |-> TRUE, val |-> v, err |-> "none"]

Err(e) == [ok |-> FALSE, val |-> <<>>, err |-> e]

EnvGet(tier, binding) ==
    IF binding \notin DOMAIN tier THEN Err("undefined")
    ELSE IF tier[binding].kind = "absent" THEN Err("undefined")
    ELSE IF tier[binding].kind = "error" THEN Err("cast")
    ELSE Ok([js |-> tier[binding].str])

\* Var::to_string / Secret::to_string: the string the binding wraps.
to_string(binding) == binding.js

\* Result::map(|b| b.to_string()).ok(): any Err becomes None.
MapToStringOk(r) ==
    IF r.ok THEN [some |-> TRUE, str |-> to_string(r.val)]
    ELSE [some |-> FALSE, str |-> <<>>]

Event(tier, binding) == [tier |-> tier, name |-> binding]

\* The secret tier is asked first and the plain-variable tier is the fallback.
LookupSecretFirst(vs, ss, binding) ==
    LET second == MapToStringOk(EnvGet(ss, binding))
    IN  IF second.some
        THEN [value |-> second, events |-> <<Event("secret", binding)>>]
        ELSE [value |-> MapToStringOk(EnvGet(vs, binding)),
              events |-> <<Event("secret", binding), Event("var", binding)>>]

\* Both tiers are asked eagerly (or instead of or_else).
LookupEager(vs, ss, binding) ==
    LET first == MapToStringOk(EnvGet(vs, binding))
    IN  [value |-> IF first.some THEN first
                   ELSE MapToStringOk(EnvGet(ss, binding)),
         events |-> <<Event("var", binding), Event("secret", binding)>>]

\* env.var(&binding).map(to_string).ok().or_else(|| env.secret(&binding)
\*     .map(to_string).ok()): the value found, and the lookups issued.
Lookup(vs, ss, binding) ==
    LET first == MapToStringOk(EnvGet(vs, binding))
    IN  IF first.some
        THEN [value |-> first, events |-> <<Event("var", binding)>>]
        ELSE [value |-> MapToStringOk(EnvGet(ss, binding)),
              events |-> <<Event("var", binding), Event("secret", binding)>>]

\* figment2's Value::from(String).
ValueFrom(s) == [kind |-> "String", str |-> s]

EmptyDict == [k \in {} |-> ValueFrom(<<>>)]

\* Dict (a BTreeMap) insertion: a later entry of the same key replaces it.
Insert(dict, key, value) ==
    [k \in DOMAIN dict \cup {key} |-> IF k = key THEN value ELSE dict[k]]

\* The entry is recorded under the binding name instead of the field name.
EntryKeyBinding(field, binding) == binding

\* Some((field.clone(), ...)): the key an entry is recorded under.
EntryKey(field, binding) == field

\* A field whose lookups both fail is recorded with an empty string.
FilterMapPlaceholder(field, found) ==
    [keep |-> TRUE,
     value |-> ValueFrom(IF found.some THEN found.str ELSE <<>>)]

\* The closure's `?` and Some(..): whether filter_map keeps the field, and
\* the value it is kept with.
FilterMap(field, found) ==
    [keep |-> found.some, value |-> ValueFrom(found.str)]

\* self.fields.iter().filter_map(..).collect::<Dict>(), together with the
\* lookups issued on the way, from field i on.
RECURSIVE CollectFrom(_, _, _, _, _)
CollectFrom(fs, vs, ss, i, acc) ==
    IF i > Len(fs) THEN acc
    ELSE LET field == fs[i]
             binding == to_uppercase(field)
             looked == Lookup(vs, ss, binding)
             entry == FilterMap(field, looked.value)
             dict == IF entry.keep
                     THEN Insert(acc.dict, EntryKey(field, binding), entry.value)
                     ELSE acc.dict
         IN  CollectFrom(fs, vs, ss, i + 1,
                         [dict |-> dict, events |-> acc.events \o looked.events])

Collect(fs, vs, ss) ==
    CollectFrom(fs, vs, ss, 1, [dict |-> EmptyDict, events |-> <<>>])

\* The dictionary is filed under the default profile whatever the tag.
ProfileCollectDefault(p, dict) == [q \in {"default"} |-> dict]

\* Profile::collect: a map of the one profile to the dictionary.
ProfileCollect(p, dict) == [q \in {p} |-> dict]

\* An error other than "not found" is propagated instead of skipped.
DataResultPropagate(fs, p, vs, ss, dict) ==
    IF \E i \in 1..Len(fs) :
          \/ EnvGet(vs, to_uppercase(fs[i])).err = "cast"
          \/ /\ ~EnvGet(vs, to_uppercase(fs[i])).ok
             /\ EnvGet(ss, to_uppercase(fs[i])).err = "cast"
    THEN Err("cast")
    ELSE Ok(ProfileCollect(p, dict))

\* The result of an earlier call is kept and returned again.
DataResultCached(fs, p, vs, ss, dict) ==
    IF result # None THEN result ELSE Ok(ProfileCollect(p, dict))

\* Ok(self.profile.collect(dict)).
DataResult(fs, p, vs, ss, dict) == Ok(ProfileCollect(p, dict))

----------------------------------------------------------------------------
\* field_names::<T>(): the dummy deserialisation through Extractor.

\* The enum entry point captures the variant names as the struct one does.
deserialize_capture_enum(extractor, entry, names) ==
    IF entry \in {"struct", "enum"}
    THEN [extractor |-> names, ret |-> Err("field extraction only")]
    ELSE [extractor |-> extractor, ret |-> Err("field extraction only")]

\* The Deserializer implemented for &mut Extractor: deserialize_struct stores
\* the field slice and fails; every other entry point is forwarded to
\* deserialize_any, which only fails.
deserialize(extractor, entry, names) ==
    IF entry = "struct"
    THEN [extractor |-> names, ret |-> Err("field extraction only")]
    ELSE [extractor |-> extractor, ret |-> Err("field extraction only")]

\* let mut extractor = Extractor(Vec::new()); let _ = T::deserialize(..);
\* extractor.0 -- with what the discarded call returned.
field_names(T) ==
    LET run == deserialize(<<>>, T.entry, T.names)
    IN  [fields |-> run.extractor, discarded |-> run.ret]

----------------------------------------------------------------------------
\* The merge pipeline the worker drives (Figment::select, Figment::extract).
\* It belongs to the figment2 crate, not to this repository: it is modelled
\* as the specification's end-to-end scenarios describe it.

DictMerge(a, b) ==
    [k \in DOMAIN a \cup DOMAIN b |-> IF k \in DOMAIN b THEN b[k] ELSE a[k]]

ProfileDict(map, p) == IF p \in DOMAIN map THEN map[p] ELSE EmptyDict

\* The dictionary extraction reads: the default layer, overlaid with the
\* selected custom profile's layer, overlaid with the global layer.
Merged(map, sel) ==
    IF sel \in DOMAIN map /\ sel \notin {"default", "global"}
    THEN DictMerge(DictMerge(ProfileDict(map, "default"), map[sel]),
                   ProfileDict(map, "global"))
    ELSE DictMerge(ProfileDict(map, "default"), ProfileDict(map, "global"))

\* Deserialising a struct of String (or Option<String>) fields from the
\* merged dictionary: the first required field without an entry fails it.
ExtractStruct(T, dict) ==
    LET missing == { i \in 1..Len(T.names) :
                        ~T.optional /\ T.names[i] \notin DOMAIN dict }
    IN  IF missing # {}
        THEN [ok |-> FALSE,
              missing |-> T.names[CHOOSE i \in missing : \A j \in missing : i <= j],
              config |-> EmptyDict]
        ELSE [ok |-> TRUE, missing |-> <<>>,
              config |-> [f \in { T.names[i] : i \in 1..Len(T.names) } \cap DOMAIN dict
                            |-> dict[f].str]]

----------------------------------------------------------------------------
\* The state machine.

Init ==
    /\ envVars \in [BindingNames -> Slots(VarStrings)]
    /\ envSecrets \in [BindingNames -> Slots(SecretStrings)]
    /\ target \in Shapes
    /\ fields = field_names(target).fields
    /\ discovery = field_names(target).discarded
    /\ profile = "default"
    /\ result = None
    /\ trace = <<>>
    /\ refreshed = FALSE
    /\ extracted = None
    /\ lastOp = "from_struct"

\* CloudflareWorkersBindings::from_struct::<T>(&env): a new provider.
from_struct(T) ==
    /\ target' = T
    /\ fields' = field_names(T).fields
    /\ discovery' = field_names(T).discarded
    /\ profile' = "default"
    /\ result' = None
    /\ trace' = <<>>
    /\ refreshed' = FALSE
    /\ extracted' = None
    /\ lastOp' = "from_struct"
    /\ UNCHANGED <<envVars, envSecrets>>

\* CloudflareWorkersBindings::profile(p).
SetProfile(p) ==
    /\ profile' = p
    /\ trace' = <<>>
    /\ extracted' = None
    /\ lastOp' = "profile"
    /\ UNCHANGED <<envVars, envSecrets, target, fields, discovery, result,
                   refreshed>>

\* Provider::data(&self).
data ==
    LET collected == Collect(fields, envVars, envSecrets)
        ret == DataResult(fields, profile, envVars, envSecrets, collected.dict)
    IN  /\ result' = ret
        /\ trace' = collected.events
        /\ refreshed' = /\ result # None
                        /\ result.ok
                        /\ ret.ok
                        /\ \E p \in DOMAIN result.val : \E q \in DOMAIN ret.val :
                              result.val[p] # ret.val[q]
        /\ extracted' = None
        /\ lastOp' = "data"
        /\ UNCHANGED <<envVars, envSecrets, target, fields, profile, discovery>>

\* The runtime changes what a plain-variable binding holds.
SetVar(b, slot) ==
    /\ envVars[b] # slot
    /\ envVars' = [envVars EXCEPT ![b] = slot]
    /\ trace' = <<>>
    /\ extracted' = None
    /\ lastOp' = "env"
    /\ UNCHANGED <<envSecrets, target, fields, profile, discovery, result,
                   refreshed>>

\* The runtime changes what a secret binding holds.
SetSecret(b, slot) ==
    /\ envSecrets[b] # slot
    /\ envSecrets' = [envSecrets EXCEPT ![b] = slot]
    /\ trace' = <<>>
    /\ extracted' = None
    /\ lastOp' = "env"
    /\ UNCHANGED <<envVars, target, fields, profile, discovery, result,
                   refreshed>>

\* Figment::new().merge(provider).select(sel).extract::<T>(), the provider's
\* data() having just been taken by the merge.
extract(sel) ==
    /\ lastOp \in {"data", "extract"}
    /\ target.entry = "struct"
    /\ extracted' = [selected |-> sel,
                      ret |-> IF result.ok
                              THEN ExtractStruct(target, Merged(result.val, sel))
                              ELSE [ok |-> FALSE, missing |-> <<>>,
                                    config |-> EmptyDict]]
    /\ trace' = <<>>
    /\ lastOp' = "extract"
    /\ UNCHANGED <<envVars, envSecrets, target, fields, profile, discovery,
                   result, refreshed>>

Next ==
    \/ \E T \in Shapes : from_struct(T)
    \/ \E p \in Profiles : SetProfile(p)
    \/ data
    \/ \E b \in BindingNames : \E slot \in Slots(VarStrings) : SetVar(b, slot)
    \/ \E b \in BindingNames : \E slot \in Slots(SecretStrings) : SetSecret(b, slot)
    \/ \E sel \in Profiles : extract(sel)

Spec == Init /\ [][Next]_vars

----------------------------------------------------------------------------
\* What the properties are stated with: the binding names written out, and
\* the store read directly.

MAX_RETRIES == <<"M","A","X","_","R","E","T","R","I","E","S">>

MISSING_FIELD == <<"M","I","S","S","I","N","G","_","F","I","E","L","D">>

BindingOf ==
    (api_base_url :> API_BASE_URL) @@ (api_key :> API_KEY)
        @@ (max_retries :> MAX_RETRIES) @@ (missing_field :> MISSING_FIELD)
        @@ (Api_Key :> API_KEY)

FieldSet == { fields[i] : i \in 1..Len(fields) }

Held(tier, b) == b \in DOMAIN tier /\ tier[b].kind = "string"

HeldEither(f) ==
    Held(envVars, BindingOf[f]) \/ Held(envSecrets, BindingOf[f])

ExpectedString(f) ==
    IF Held(envVars, BindingOf[f]) THEN envVars[BindingOf[f]].str
    ELSE envSecrets[BindingOf[f]].str

ExpectedDict ==
    [f \in { g \in FieldSet : HeldEither(g) }
        |-> [kind |-> "String", str |-> ExpectedString(f)]]

RemoveAt(seq, i) == [j \in 1..(Len(seq) - 1) |-> IF j < i THEN seq[j] ELSE seq[j + 1]]

AfterData == lastOp = "data"

\* C1: after data(), every field whose binding the plain-variable tier holds
\* is recorded with that tier's string (also when the secret tier holds the
\* binding too), and every field held by the secret tier alone is recorded
\* with the secret's string; the string is the stored one, unchanged.
C1_PlainThenSecretValue ==
    AfterData =>
        /\ result.ok
        /\ DOMAIN result.val # {}
        /\ \A p \in DOMAIN result.val : \A f \in FieldSet :
              LET b == BindingOf[f]
                  dict == result.val[p]
              IN  /\ Held(envVars, b) =>
                        /\ f \in DOMAIN dict
                        /\ dict[f] = [kind |-> "String", str |-> envVars[b].str]
                  /\ (~Held(envVars, b) /\ Held(envSecrets, b)) =>
                        /\ f \in DOMAIN dict
                        /\ dict[f] = [kind |-> "String", str |-> envSecrets[b].str]

C1_Witness ==
    /\ AfterData
    /\ target = FullConfig
    /\ Held(envVars, API_BASE_URL) /\ Held(envSecrets, API_BASE_URL)
    /\ ~Held(envVars, API_KEY) /\ Held(envSecrets, API_KEY)
    /\ result.val[profile][api_base_url].str = envVars[API_BASE_URL].str
    /\ result.val[profile][api_key].str = envSecrets[API_KEY].str

\* C2: after data(), a field whose binding neither tier holds has no entry,
\* and the dictionary is the one the field list without that field gives.
C2_AbsentFieldSkipped ==
    AfterData =>
        /\ result.ok
        /\ \A p \in DOMAIN result.val : \A i \in 1..Len(fields) :
              ~HeldEither(fields[i]) =>
                  /\ fields[i] \notin DOMAIN result.val[p]
                  /\ result.val[p] =
                        Collect(RemoveAt(fields, i), envVars, envSecrets).dict

C2_Witness ==
    /\ AfterData
    /\ target = PartialConfig
    /\ HeldEither(api_base_url)
    /\ ~HeldEither(api_key)
    /\ DOMAIN result.val[profile] = {api_base_url}

\* C3: data() returns Ok whatever the store holds, also when a lookup fails
\* with an error other than "not found" in either tier.
C3_DataTotal == AfterData => result.ok

C3_Witness ==
    /\ AfterData
    /\ result.ok
    /\ target = PartialConfig
    /\ envVars[API_BASE_URL].kind = "error"
    /\ envVars[API_KEY].kind = "absent"
    /\ envSecrets[API_KEY].kind = "error"

\* C4: every store lookup is issued by data() and asks for the upper-cased
\* name of a field of the list; from_struct and profile issue none.
C4_LookupsOnlyUpperCasedFields ==
    /\ lastOp \in {"from_struct", "profile"} => trace = <<>>
    /\ \A i \in 1..Len(trace) :
          /\ lastOp = "data"
          /\ trace[i].tier \in {"var", "secret"}
          /\ \E f \in FieldSet : trace[i].name = BindingOf[f]

C4_Witness ==
    /\ AfterData
    /\ target = CaseConfig
    /\ Len(trace) = 4
    /\ \A i \in 1..4 : trace[i].name = API_KEY

\* C5: profile(p) changes the tag alone, and data() returns a map whose one
\* key is the current tag and whose dictionary is the one every other tag
\* would be given.
C5_ProfileOnlyFiles ==
    /\ [][lastOp' = "profile" =>
            /\ fields' = fields
            /\ target' = target
            /\ envVars' = envVars
            /\ envSecrets' = envSecrets
            /\ result' = result]_vars
    /\ [](AfterData =>
            /\ result.ok
            /\ DOMAIN result.val = {profile}
            /\ \A p \in Profiles :
                  LET other == DataResult(fields, p, envVars, envSecrets,
                                   Collect(fields, envVars, envSecrets).dict)
                  IN  /\ other.ok
                      /\ DOMAIN other.val = {p}
                      /\ other.val[p] = result.val[profile])

C5_Witness ==
    /\ AfterData
    /\ profile = "staging"
    /\ DOMAIN result.val = {"staging"}
    /\ DOMAIN result.val["staging"] # {}

\* C6: with the provider's profile "staging" and every field required, a
\* field whose binding exists is found by an extraction that selected
\* "staging", and an extraction that selected the default profile fails for
\* want of the first required field.
C6_StagingSelected ==
    (lastOp = "extract" /\ profile = "staging" /\ ~target.optional) =>
        \A f \in FieldSet : HeldEither(f) =>
            /\ extracted.selected = "staging" =>
                  /\ extracted.ret.missing # f
                  /\ extracted.ret.ok <=> (\A g \in FieldSet : HeldEither(g))
                  /\ extracted.ret.ok =>
                        extracted.ret.config[f] = ExpectedString(f)
            /\ extracted.selected = "default" =>
                  /\ ~extracted.ret.ok
                  /\ extracted.ret.missing = fields[1]

C6_Witness ==
    /\ lastOp = "extract"
    /\ profile = "staging"
    /\ target = SingleConfig
    /\ HeldEither(api_base_url)
    /\ extracted.selected = "default"
    /\ ~extracted.ret.ok
    /\ extracted.ret.missing = api_base_url

\* C7: what a data() call returns is fixed by the store as it is at that call
\* and by the field list, also when an earlier call returned something else.
C7_FreshEveryCall ==
    AfterData =>
        /\ result.ok
        /\ DOMAIN result.val # {}
        /\ \A p \in DOMAIN result.val : result.val[p] = ExpectedDict

C7_Witness ==
    /\ AfterData
    /\ refreshed
    /\ result.val[profile] = ExpectedDict

\* C8: every key data() returns is a field of the list as declared.
C8_KeysAreFields ==
    AfterData =>
        /\ result.ok
        /\ \A p \in DOMAIN result.val : DOMAIN result.val[p] \subseteq FieldSet

C8_Witness ==
    /\ AfterData
    /\ target = PartialConfig
    /\ api_key \in DOMAIN result.val[profile]
    /\ API_KEY \notin DOMAIN result.val[profile]
    /\ missing_field \notin DOMAIN result.val[profile]

\* C9: the field list is the name slice of a struct shape, in order, and is
\* empty for every other shape; the discovery deserialisation fails without
\* a value; a zero-field struct gives an empty dictionary.
C9_FieldDiscovery ==
    /\ fields = IF target.entry = "struct" THEN target.names ELSE <<>>
    /\ ~discovery.ok
    /\ discovery.val = <<>>
    /\ (AfterData /\ target.names = <<>>) =>
          /\ result.ok
          /\ \A p \in DOMAIN result.val : DOMAIN result.val[p] = {}

C9_Witness ==
    /\ AfterData
    /\ target = EmptyConfig
    /\ fields = <<>>
    /\ result.ok
    /\ DOMAIN result.val[profile] = {}

\* C10: in a data() call every field's binding is asked of the plain-variable
\* tier, a secret lookup comes right after the failed plain-variable lookup
\* of the same binding, and a binding the plain-variable tier holds is never
\* asked of the secret tier.
C10_PlainBeforeSecret ==
    AfterData =>
        /\ \A f \in FieldSet : \E i \in 1..Len(trace) :
              trace[i] = [tier |-> "var", name |-> BindingOf[f]]
        /\ \A j \in 1..Len(trace) : trace[j].tier = "secret" =>
              /\ j > 1
              /\ trace[j - 1] = [tier |-> "var", name |-> trace[j].name]
              /\ ~Held(envVars, trace[j].name)

C10_Witness ==
    /\ AfterData
    /\ target = PartialConfig
    /\ Held(envVars, API_BASE_URL)
    /\ ~Held(envVars, API_KEY)
    /\ trace = << [tier |-> "var", name |-> API_BASE_URL],
                  [tier |-> "var", name |-> MISSING_FIELD],
                  [tier |-> "secret", name |-> MISSING_FIELD],
                  [tier |-> "var", name |-> API_KEY],
                  [tier |-> "secret", name |-> API_KEY] >>

====
